---------------------------- MODULE Spec2Model ----------------------------
(* Model of src/cfg.py: class CFG (construction, validation, production   *)
(* lookup, the bounded random walk of generate, and the membership        *)
(* queries).                                                              *)
(*                                                                        *)
(* A Python str is a sequence of one-character strings; a symbol is a     *)
(* str; a production is a pair <<lhs, rhs>> whose rhs is a sequence of    *)
(* symbols (List[str]).                                                   *)
EXTENDS Integers, Sequences, FiniteSets, TLC

(* ------------------------------ bounds -------------------------------- *)
MaxProds == 2
MaxLen == 5
MaxTokens == 2

(* ------------------------------ inputs -------------------------------- *)
SymS == <<"S">>
Syma == <<"a">>
Symab == <<"a", "b">>
Symb == <<"b">>

TerminalPool == {Syma, Symab}
NonterminalPool == {SymS, Syma}
QuerySymbols == {SymS, Syma, Symab, Symb}

RhsMenu ==
  { <<>>, <<Syma>>, <<Symab>>, <<SymS>>, <<SymS, Syma>>, <<Symab, SymS>> }

ProductionPool == NonterminalPool \X RhsMenu

SeqsUpTo(set, n) == UNION { [1..k -> set] : k \in 0..n }

Strategies == {"uniform", "weighted", "greedy"}

LengthInputs == 0..MaxLen

(* ----------------------------- str helpers ---------------------------- *)
Whitespace == {" "}

RECURSIVE JoinStrs(_, _)
(* sep.join(parts) for a sequence of strs *)
JoinStrs(sep, parts) ==
  IF Len(parts) = 0 THEN <<>>
  ELSE IF Len(parts) = 1 THEN parts[1]
  ELSE parts[1] \o sep \o JoinStrs(sep, Tail(parts))

(* sep.join(s) for a str s: Python iterates the characters of s *)
JoinChars(sep, s) == JoinStrs(sep, [i \in 1..Len(s) |-> <<s[i]>>])

RECURSIVE SplitFrom(_, _, _, _)
SplitFrom(s, i, cur, acc) ==
  IF i > Len(s)
  THEN IF cur = <<>> THEN acc ELSE Append(acc, cur)
  ELSE IF s[i] \in Whitespace
       THEN SplitFrom(s, i + 1, <<>>, IF cur = <<>> THEN acc ELSE Append(acc, cur))
       ELSE SplitFrom(s, i + 1, Append(cur, s[i]), acc)

(* str.split() with no separator: runs of whitespace separate, no empties *)
Split(s) == SplitFrom(s, 1, <<>>, <<>>)

Texts ==
  { JoinStrs(<<" ">>, ts) : ts \in SeqsUpTo(QuerySymbols, MaxTokens) }
  \cup { <<" ">> \o JoinStrs(<<" ", " ">>, ts) : ts \in SeqsUpTo(QuerySymbols, MaxTokens) }

(* ------------------------------- state -------------------------------- *)
VARIABLES
  args,                 \* the caller's (terminals, nonterminals, productions)
  status,               \* "none" | "constructed" | "failed"
  terminal_symbols, nonterminal_symbols, productions, all_symbols,
  err,                  \* the exception of the last call, "none" if it returned
  ret,                  \* the last query call and its returned value
  pc,                   \* generate: "idle" | "loop" | "returned" | "raised"
  symbol, max_length, sampling_strategy,
  generated_string, current_symbol, iter,
  visited               \* history: the symbols of the walk, start symbol first

fields == <<terminal_symbols, nonterminal_symbols, productions, all_symbols>>
frame == <<symbol, max_length, sampling_strategy, generated_string,
           current_symbol, iter, visited>>
vars == <<args, status, fields, err, ret, pc, frame>>

NoRet == [op |-> "none"]
NoFrame ==
  /\ symbol' = <<>>
  /\ max_length' = 0
  /\ sampling_strategy' = "none"
  /\ generated_string' = <<>>
  /\ current_symbol' = <<>>
  /\ iter' = 0
  /\ visited' = <<>>

(* ---------------------------- validation ------------------------------ *)
(* mutant: the rhs symbols are not checked *)
CheckRhsSkipped(rhs, k, all) == "none"

RECURSIVE CheckRhs(_, _, _)
(* the inner loop of validate over production[1] *)
CheckRhs(rhs, k, all) ==
  IF k > Len(rhs) THEN "none"
  ELSE IF rhs[k] \notin all THEN "InvalidRhs"
  ELSE CheckRhs(rhs, k + 1, all)

(* mutant: the rhs loop runs before the lhs assert *)
CheckProductionRhsFirst(p, nts, all) ==
  IF CheckRhs(p[2], 1, all) # "none" THEN "InvalidRhs"
  ELSE IF p[1] \notin nts THEN "InvalidLhs" ELSE "none"

(* one iteration of validate's outer loop: the lhs assert, then the rhs loop *)
CheckProduction(p, nts, all) ==
  IF p[1] \notin nts THEN "InvalidLhs" ELSE CheckRhs(p[2], 1, all)

RECURSIVE CheckProductions(_, _, _, _)
CheckProductions(ps, i, nts, all) ==
  IF i > Len(ps) THEN "none"
  ELSE LET e == CheckProduction(ps[i], nts, all)
       IN IF e # "none" THEN e ELSE CheckProductions(ps, i + 1, nts, all)

(* CFG.validate: the first failing assert, "none" when all pass *)
validate(ts, nts, ps, all) ==
  IF Cardinality(ts \cap nts) # 0 THEN "Disjoint"
  ELSE CheckProductions(ps, 1, nts, all)

(* --------------------------- construction ----------------------------- *)
Init ==
  /\ args \in [ts : SUBSET TerminalPool, nts : SUBSET NonterminalPool,
               ps : SeqsUpTo(ProductionPool, MaxProds)]
  /\ status = "none"
  /\ terminal_symbols = {}
  /\ nonterminal_symbols = {}
  /\ productions = <<>>
  /\ all_symbols = {}
  /\ err = "none"
  /\ ret = NoRet
  /\ pc = "idle"
  /\ symbol = <<>>
  /\ max_length = 0
  /\ sampling_strategy = "none"
  /\ generated_string = <<>>
  /\ current_symbol = <<>>
  /\ iter = 0
  /\ visited = <<>>

(* CFG.__init__: store the arguments, derive all_symbols, validate; an     *)
(* assert that fails propagates and the caller gets no object.            *)
Construct ==
  /\ status = "none"
  /\ LET all == args.ts \cup args.nts
         e == validate(args.ts, args.nts, args.ps, all)
     IN IF e = "none"
        THEN /\ status' = "constructed"
             /\ terminal_symbols' = args.ts
             /\ nonterminal_symbols' = args.nts
             /\ productions' = args.ps
             /\ all_symbols' = all
             /\ err' = "none"
        ELSE /\ status' = "failed"
             /\ err' = e
             /\ UNCHANGED fields
  /\ UNCHANGED <<args, ret, pc, frame>>

(* a call is made on a constructed grammar by a caller that holds no     *)
(* pending result: the program is single-threaded                        *)
CanCall == status = "constructed" /\ pc = "idle"

(* the outcome of a query: ret holds the value handed to the caller *)
Returns(r) ==
  /\ err' = "none"
  /\ ret' = r
  /\ pc' = "returned"
  /\ NoFrame

Raises(e, call) ==
  /\ err' = e
  /\ ret' = call
  /\ pc' = "raised"
  /\ NoFrame

(* the caller takes the value (or the exception) of the finished call, as *)
(* the driver does when it prints what generate returned                  *)
ConsumeResult ==
  /\ status = "constructed"
  /\ pc \in {"returned", "raised"}
  /\ err' = "none"
  /\ ret' = NoRet
  /\ pc' = "idle"
  /\ NoFrame
  /\ UNCHANGED <<args, status, fields>>

(* ------------------------- production lookup -------------------------- *)
(* mutant: the matching productions come back in reverse order *)
ProductionsWithLhsReversed(ps, sym) ==
  LET r == SelectSeq(ps, LAMBDA p : p[1] = sym)
  IN [i \in 1..Len(r) |-> r[Len(r) + 1 - i]]

(* the list comprehension of get_productions_for_symbol *)
ProductionsWithLhs(ps, sym) == SelectSeq(ps, LAMBDA p : p[1] = sym)

get_productions_for_symbol(sym) == ProductionsWithLhs(productions, sym)

(* mutant: the lookup removes what it returns from self.productions *)
GetProductionsForSymbolDraining ==
  /\ CanCall
  /\ \E sym \in QuerySymbols :
       IF sym \notin all_symbols
       THEN /\ Raises("UnknownSymbol", [op |-> "get_productions_for_symbol", arg |-> sym])
            /\ productions' = productions
       ELSE /\ Returns([op |-> "get_productions_for_symbol", arg |-> sym,
                        val |-> get_productions_for_symbol(sym)])
            /\ productions' = SelectSeq(productions, LAMBDA p : p[1] # sym)
  /\ UNCHANGED <<args, status, terminal_symbols, nonterminal_symbols, all_symbols>>

GetProductionsForSymbol ==
  /\ CanCall
  /\ \E sym \in QuerySymbols :
       IF sym \notin all_symbols
       THEN Raises("UnknownSymbol", [op |-> "get_productions_for_symbol", arg |-> sym])
       ELSE Returns([op |-> "get_productions_for_symbol", arg |-> sym,
                     val |-> get_productions_for_symbol(sym)])
  /\ UNCHANGED <<args, status, fields>>

(* a second call of validate on the constructed object *)
Validate ==
  /\ CanCall
  /\ LET e == validate(terminal_symbols, nonterminal_symbols, productions, all_symbols)
     IN IF e = "none" THEN Returns([op |-> "validate"]) ELSE Raises(e, [op |-> "validate"])
  /\ UNCHANGED <<args, status, fields>>

(* ------------------------- membership queries ------------------------- *)
is_terminal(sym) == sym \in terminal_symbols

is_nonterminal(sym) == sym \in nonterminal_symbols

IsTerminal ==
  /\ CanCall
  /\ \E sym \in QuerySymbols :
       Returns([op |-> "is_terminal", arg |-> sym, val |-> is_terminal(sym)])
  /\ UNCHANGED <<args, status, fields>>

IsNonterminal ==
  /\ CanCall
  /\ \E sym \in QuerySymbols :
       Returns([op |-> "is_nonterminal", arg |-> sym, val |-> is_nonterminal(sym)])
  /\ UNCHANGED <<args, status, fields>>

(* Python values compared by ==: a str and a list are never equal *)
PyStr(s) == [type |-> "str", val |-> s]
PyList(l) == [type |-> "list", val |-> l]
PyEq(x, y) == x.type = y.type /\ x.val = y.val

(* tuple equality of a stored production (str, list) and the argument *)
TupleEq(p, q) == PyEq(PyStr(p[1]), q[1]) /\ PyEq(PyList(p[2]), q[2])

(* production in self.productions *)
is_valid_production(q) == \E i \in 1..Len(productions) : TupleEq(productions[i], q)

(* the argument is a pair of strs, as is_valid_string passes it, or a   *)
(* pair (str, list) shaped like the stored productions                    *)
IsValidProduction ==
  /\ CanCall
  /\ \/ \E x \in QuerySymbols, y \in QuerySymbols :
          LET q == <<PyStr(x), PyStr(y)>>
          IN Returns([op |-> "is_valid_production", kind |-> "str", arg |-> <<x, y>>,
                      val |-> is_valid_production(q)])
     \/ \E p \in ProductionPool :
          LET q == <<PyStr(p[1]), PyList(p[2])>>
          IN Returns([op |-> "is_valid_production", kind |-> "list", arg |-> p,
                      val |-> is_valid_production(q)])
  /\ UNCHANGED <<args, status, fields>>

RECURSIVE AllTokensKnown(_, _)
(* the first loop of is_valid_string *)
AllTokensKnown(toks, i) ==
  IF i > Len(toks) THEN TRUE
  ELSE IF toks[i] \notin all_symbols THEN FALSE
  ELSE AllTokensKnown(toks, i + 1)

RECURSIVE AllPairsValid(_, _)
(* the second loop of is_valid_string: i ranges over range(len - 1) *)
AllPairsValid(toks, i) ==
  IF i > Len(toks) - 1 THEN TRUE
  ELSE IF ~ is_valid_production(<<PyStr(toks[i]), PyStr(toks[i + 1])>>) THEN FALSE
  ELSE AllPairsValid(toks, i + 1)

is_valid_string(text) ==
  LET toks == Split(text)
  IN IF ~ AllTokensKnown(toks, 1) THEN FALSE ELSE AllPairsValid(toks, 1)

IsValidString ==
  /\ CanCall
  /\ \E text \in Texts :
       Returns([op |-> "is_valid_string", arg |-> text, val |-> is_valid_string(text)])
  /\ UNCHANGED <<args, status, fields>>

(* ----------------------------- generate ------------------------------- *)
(* lines 27-33: the three asserts, the max_length == 1 return, the locals *)
GenerateCall ==
  /\ CanCall
  /\ \E sym \in QuerySymbols, ml \in LengthInputs, strat \in Strategies :
       /\ symbol' = sym
       /\ max_length' = ml
       /\ sampling_strategy' = strat
       /\ iter' = 0
       /\ IF sym \notin nonterminal_symbols
          THEN /\ err' = "NotNonterminal" /\ pc' = "raised" /\ ret' = NoRet
               /\ generated_string' = <<>> /\ current_symbol' = <<>> /\ visited' = <<>>
          ELSE IF strat \notin {"uniform", "weighted"}
          THEN /\ err' = "UnsupportedStrategy" /\ pc' = "raised" /\ ret' = NoRet
               /\ generated_string' = <<>> /\ current_symbol' = <<>> /\ visited' = <<>>
          ELSE IF ~ (ml > 0)
          THEN /\ err' = "InvalidLength" /\ pc' = "raised" /\ ret' = NoRet
               /\ generated_string' = <<>> /\ current_symbol' = <<>> /\ visited' = <<>>
          ELSE IF ml = 1
          THEN /\ err' = "none" /\ pc' = "returned"
               /\ ret' = [op |-> "generate", val |-> sym]
               /\ generated_string' = <<>> /\ current_symbol' = <<>>
               /\ visited' = <<sym>>
          ELSE /\ err' = "none" /\ pc' = "loop" /\ ret' = NoRet
               /\ generated_string' = sym
               /\ current_symbol' = sym
               /\ visited' = <<sym>>
  /\ UNCHANGED <<args, status, fields>>

(* line 43: generated_string += " " + " ".join(sampled_output); the       *)
(* sampled output is a str, so join runs over its characters              *)
Appended(gs, sampled_output) == gs \o <<" ">> \o JoinChars(<<" ">>, sampled_output)

(* mutant: the walk goes on after a terminal was appended *)
StepWithNoBreak(sampled_output) ==
  /\ generated_string' = Appended(generated_string, sampled_output)
  /\ current_symbol' = sampled_output
  /\ visited' = Append(visited, sampled_output)
  /\ err' = "none"
  /\ pc' = "loop"
  /\ ret' = NoRet
  /\ iter' = iter + 1

(* lines 43-46 once sampled_output is bound *)
StepWith(sampled_output) ==
  /\ generated_string' = Appended(generated_string, sampled_output)
  /\ current_symbol' = sampled_output
  /\ visited' = Append(visited, sampled_output)
  /\ err' = "none"
  /\ IF sampled_output \in terminal_symbols
     THEN /\ pc' = "returned"
          /\ ret' = [op |-> "generate", val |-> generated_string']
          /\ iter' = iter
     ELSE /\ pc' = "loop"
          /\ ret' = NoRet
          /\ iter' = iter + 1

StepRaises(e) ==
  /\ err' = e
  /\ pc' = "raised"
  /\ ret' = NoRet
  /\ UNCHANGED <<generated_string, current_symbol, visited, iter>>

(* one iteration of the for loop, lines 34-46 *)
GenerateStep ==
  /\ status = "constructed"
  /\ pc = "loop"
  /\ iter < max_length - 1
  /\ IF current_symbol \notin all_symbols
     THEN StepRaises("UnknownSymbol")
     ELSE LET prods == get_productions_for_symbol(current_symbol)
          IN IF Len(prods) = 0
             THEN /\ pc' = "returned"
                  /\ ret' = [op |-> "generate", val |-> generated_string]
                  /\ err' = "none"
                  /\ UNCHANGED <<generated_string, current_symbol, visited, iter>>
             ELSE IF sampling_strategy = "uniform"
             THEN \E production_idx \in 1..Len(prods) :
                    LET possible_outputs == prods[production_idx][2]
                    IN IF Len(possible_outputs) = 0
                       THEN StepRaises("ValueError")
                       ELSE \E k \in 1..Len(possible_outputs) :
                              StepWith(possible_outputs[k])
             ELSE StepRaises("UnboundLocalError")
  /\ UNCHANGED <<args, status, fields, symbol, max_length, sampling_strategy>>

(* line 47, reached when range(max_length - 1) is exhausted *)
GenerateReturn ==
  /\ status = "constructed"
  /\ pc = "loop"
  /\ ~ (iter < max_length - 1)
  /\ pc' = "returned"
  /\ ret' = [op |-> "generate", val |-> generated_string]
  /\ err' = "none"
  /\ UNCHANGED <<args, status, fields, frame>>

Next ==
  \/ Construct
  \/ GetProductionsForSymbol
  \/ Validate
  \/ IsTerminal
  \/ IsNonterminal
  \/ IsValidProduction
  \/ IsValidString
  \/ GenerateCall
  \/ GenerateStep
  \/ GenerateReturn
  \/ ConsumeResult

Spec == Init /\ [][Next]_vars

(* ------------------------------ properties ---------------------------- *)
Last(q) == q[Len(q)]

(* the grammar of the spec's example scenario *)
ExampleGrammar ==
  /\ status = "constructed"
  /\ terminal_symbols = {Syma}
  /\ nonterminal_symbols = {SymS}
  /\ productions = << <<SymS, <<Syma>>>> >>

GenerateReturned == pc = "returned" /\ ret.op = "generate"

(* C1: once the three preconditions of generate hold (start symbol a      *)
(* nonterminal, max_length > 0, strategy uniform or weighted), the call   *)
(* never raises, whatever is sampled and however long the walk.           *)
C1_GenerateNeverRaises ==
  ( /\ status = "constructed"
    /\ symbol \in nonterminal_symbols
    /\ max_length > 0
    /\ sampling_strategy \in {"uniform", "weighted"} )
  => pc # "raised"

(* C2: the string generate returns splits on whitespace into at most      *)
(* max_length tokens, also when symbols are longer than one character.    *)
C2_TokensWithinMaxLength ==
  GenerateReturned => Len(Split(ret.val)) <= max_length

(* C9: the string generate returns is the visited symbols in order, each  *)
(* one unbroken token, joined by exactly one space.                       *)
C9_OutputIsVisitedJoined ==
  GenerateReturned => ret.val = JoinStrs(<<" ">>, visited)

HasProductionTo(x, y) ==
  \E j \in 1..Len(productions) :
    /\ productions[j][1] = x
    /\ \E k \in 1..Len(productions[j][2]) : productions[j][2][k] = y

HasNoProductions(x) == \A j \in 1..Len(productions) : productions[j][1] # x

(* C10: under the uniform strategy every consecutive pair (x, y) of the   *)
(* walk has x a nonterminal with a production whose rhs contains y, and   *)
(* a walk that ends with fewer than max_length symbols ends on a terminal *)
(* or on a symbol without productions.                                    *)
C10_UniformWalkLicensed ==
  (status = "constructed" /\ sampling_strategy = "uniform" /\ Len(visited) >= 1)
  => /\ \A i \in 1..(Len(visited) - 1) :
          /\ visited[i] \in nonterminal_symbols
          /\ HasProductionTo(visited[i], visited[i + 1])
     /\ (pc \in {"returned", "raised"} /\ Len(visited) < max_length)
          => (Last(visited) \in terminal_symbols \/ HasNoProductions(Last(visited)))

TextSa == <<"S", " ", "a">>
TextSb == <<"S", " ", "b">>

(* C7: is_valid_string(text) is true exactly when every token is in       *)
(* all_symbols and every adjacent token pair is accepted by               *)
(* is_valid_production; on the example grammar "S a" is valid and "S b"   *)
(* is not.                                                                *)
C7_IsValidString ==
  (pc = "returned" /\ ret.op = "is_valid_string")
  => LET toks == Split(ret.arg)
     IN /\ ret.val <=>
             /\ \A i \in 1..Len(toks) : toks[i] \in all_symbols
             /\ \A i \in 1..(Len(toks) - 1) :
                  is_valid_production(<<PyStr(toks[i]), PyStr(toks[i + 1])>>)
        /\ (ExampleGrammar /\ ret.arg = TextSa) => ret.val = TRUE
        /\ (ExampleGrammar /\ ret.arg = TextSb) => ret.val = FALSE

(* C3: a terminal is only ever the last symbol of a walk, and the walk    *)
(* is over as soon as one is appended; on the example grammar             *)
(* generate(S, max_length = 5) returns "S a".                             *)
C3_TerminalEndsWalk ==
  /\ \A i \in 1..(Len(visited) - 1) : visited[i] \notin terminal_symbols
  /\ (pc = "loop" => Last(visited) \notin terminal_symbols)
  /\ (Len(visited) >= 2 /\ Last(visited) \in terminal_symbols)
       => (GenerateReturned /\ Len(visited) <= max_length)
  /\ (ExampleGrammar /\ symbol = SymS /\ max_length = 5 /\ sampling_strategy = "uniform")
       => /\ pc # "raised"
          /\ GenerateReturned => ret.val = TextSa

C3_Witness ==
  /\ ExampleGrammar
  /\ GenerateReturned
  /\ symbol = SymS
  /\ max_length = 5
  /\ visited = <<SymS, Syma>>

WellFormed(ts, nts, ps) ==
  /\ ts \cap nts = {}
  /\ \A i \in 1..Len(ps) :
       /\ ps[i][1] \in nts
       /\ \A k \in 1..Len(ps[i][2]) : ps[i][2][k] \in (ts \cup nts)

(* C4: construction succeeds exactly when the sets are disjoint, every    *)
(* lhs is a nonterminal and every rhs symbol is in the union; on success  *)
(* the fields are the arguments and all_symbols is the union; on failure  *)
(* there is no grammar.                                                   *)
C4_ConstructionIffWellFormed ==
  status # "none"
  => /\ status = "constructed" <=> WellFormed(args.ts, args.nts, args.ps)
     /\ status = "constructed"
          => /\ terminal_symbols = args.ts
             /\ nonterminal_symbols = args.nts
             /\ productions = args.ps
             /\ all_symbols = args.ts \cup args.nts
     /\ status = "failed"
          => /\ err \in {"Disjoint", "InvalidLhs", "InvalidRhs"}
             /\ fields = <<{}, {}, <<>>, {}>>
             /\ pc = "idle"

C4_Witness ==
  /\ status = "constructed"
  /\ Len(productions) = 2
  /\ terminal_symbols # {}
  /\ \E i \in 1..Len(productions) : Len(productions[i][2]) = 2

BadLhs(i) == args.ps[i][1] \notin args.nts
BadRhs(i) ==
  \E k \in 1..Len(args.ps[i][2]) : args.ps[i][2][k] \notin (args.ts \cup args.nts)

(* C5 as stated: with disjoint sets and some production whose lhs is not  *)
(* a nonterminal, construction fails with the invalid-left-hand-side      *)
(* error, wherever that production is and whatever else is wrong.         *)
C5_LhsErrorAlways ==
  ( /\ status # "none"
    /\ args.ts \cap args.nts = {}
    /\ \E i \in 1..Len(args.ps) : BadLhs(i) )
  => (status = "failed" /\ err = "InvalidLhs")

(* C5 amended: with disjoint sets and some production whose lhs is not a  *)
(* nonterminal, construction fails; the error is invalid-left-hand-side   *)
(* unless a production earlier in the list than the first such one has an *)
(* rhs symbol outside all_symbols, and then it is invalid-right-hand-side.*)
C5_FirstDefectDecides ==
  ( /\ status # "none"
    /\ args.ts \cap args.nts = {}
    /\ \E i \in 1..Len(args.ps) : BadLhs(i) )
  => /\ status = "failed"
     /\ LET first == CHOOSE i \in 1..Len(args.ps) :
                       BadLhs(i) /\ \A j \in 1..(i - 1) : ~ BadLhs(j)
        IN IF \E j \in 1..(first - 1) : BadRhs(j)
           THEN err = "InvalidRhs"
           ELSE err = "InvalidLhs"

C5_Witness ==
  /\ status = "failed"
  /\ err = "InvalidLhs"
  /\ args.ts \cap args.nts = {}
  /\ Len(args.ps) = 2
  /\ ~ BadLhs(1)
  /\ BadLhs(2)
  /\ BadRhs(2)

(* r is the subsequence of ps made of the productions with lhs sym *)
IsSubsequenceWithLhs(r, ps, sym) ==
  /\ Len(r) = Cardinality({i \in 1..Len(ps) : ps[i][1] = sym})
  /\ \E f \in [1..Len(r) -> 1..Len(ps)] :
       /\ \A k \in 1..Len(r) : r[k] = ps[f[k]] /\ ps[f[k]][1] = sym
       /\ \A k \in 1..Len(r), l \in 1..Len(r) : k < l => f[k] < f[l]

(* C6: for a symbol of all_symbols the lookup returns the productions     *)
(* with that lhs in the grammar's order, duplicates kept, and the empty   *)
(* list for a terminal; for any other symbol it raises the unknown-symbol *)
(* error.                                                                 *)
C6_LookupIsOrderedFilter ==
  (status = "constructed" /\ ret.op = "get_productions_for_symbol")
  => IF ret.arg \in all_symbols
     THEN /\ pc = "returned"
          /\ IsSubsequenceWithLhs(ret.val, productions, ret.arg)
          /\ ret.arg \in terminal_symbols => ret.val = <<>>
     ELSE pc = "raised" /\ err = "UnknownSymbol"

C6_Witness ==
  /\ pc = "returned"
  /\ ret.op = "get_productions_for_symbol"
  /\ Len(ret.val) = 2
  /\ ret.val[1] # ret.val[2]

Invariants ==
  /\ terminal_symbols \cap nonterminal_symbols = {}
  /\ \A i \in 1..Len(productions) :
       /\ productions[i][1] \in nonterminal_symbols
       /\ \A k \in 1..Len(productions[i][2]) : productions[i][2][k] \in all_symbols
  /\ all_symbols = terminal_symbols \cup nonterminal_symbols

(* C8: once constructed, no call changes terminal_symbols,                *)
(* nonterminal_symbols, productions or all_symbols; the three invariants  *)
(* and all_symbols = terminals \cup nonterminals hold in every state, and *)
(* a second validate succeeds.                                            *)
C8_Immutable ==
  /\ [][status = "constructed" => (fields' = fields /\ status' = status)]_vars
  /\ [](status = "constructed"
          => /\ Invariants
             /\ fields = <<args.ts, args.nts, args.ps, args.ts \cup args.nts>>
             /\ ret.op = "validate" => pc = "returned")

C8_Witness ==
  /\ status = "constructed"
  /\ pc = "returned"
  /\ ret.op = "validate"
  /\ Len(productions) = 2
  /\ terminal_symbols # {}
  /\ nonterminal_symbols # {}

=============================================================================
